---- MODULE Spec2Model ----
(***************************************************************************)
(* A model of the WASI client of reqwest: src/wasi/client.rs (Client,      *)
(* ClientBuilder, Config, header merge, timeout-bounded execute) and       *)
(* src/wasi/response.rs (Response, error_for_status, DataStream).          *)
(*                                                                         *)
(* A HeaderMap is a function from header names to the sequence of values   *)
(* stored under that name (the empty sequence: the name is absent).        *)
(***************************************************************************)
EXTENDS Integers, Sequences, FiniteSets, TLC

\* ------------------------------------------------------------------------
\* Bounds of the model
\* ------------------------------------------------------------------------
\* how many times build() may succeed (Arc<Config> allocations)
MaxBuilds == 2
\* how many Client handles (built or cloned) may exist
MaxClients == 3

\* ------------------------------------------------------------------------
\* Header names and values
\* ------------------------------------------------------------------------
USER_AGENT == "user-agent"
CONTENT_TYPE == "content-type"

\* the header names of the model, in the order HeaderMap::iter visits them
NameOrder == <<CONTENT_TYPE, USER_AGENT>>
Names == {NameOrder[i] : i \in 1..Len(NameOrder)}

\* strings that convert to a HeaderValue
Values == {"v1", "v2"}
\* a string with a control character: HeaderValue::try_from rejects it
InvalidValues == {"bad\n"}

\* HeaderMap::new
EmptyHeaders == [n \in Names |-> <<>>]

\* HeaderMap::insert: the value replaces every value stored under the key
insert(h, key, value) == [h EXCEPT ![key] = <<value>>]

\* HeaderMap::iter: every (name, value) pair, the values of one name in their
\* stored order
RECURSIVE IterFrom(_, _)
IterFrom(h, i) ==
    IF i > Len(NameOrder) THEN <<>>
    ELSE [j \in 1..Len(h[NameOrder[i]]) |-> <<NameOrder[i], h[NameOrder[i]][j]>>]
         \o IterFrom(h, i + 1)

iter(h) == IterFrom(h, 1)

\* ------------------------------------------------------------------------
\* Errors and results
\* ------------------------------------------------------------------------
NoError == [kind |-> "None", timeout |-> FALSE]
BuilderError == [kind |-> "Builder", timeout |-> FALSE]

\* Config::default
Config_default == [headers |-> EmptyHeaders, error |-> NoError]

\* the header collections handed to default_headers in the model; one of them
\* stores two values under one name
DefaultHeaderInputs ==
    { [n \in Names |-> IF n = CONTENT_TYPE THEN <<"v1", "v2">> ELSE <<>>],
      [n \in Names |-> IF n = USER_AGENT THEN <<"v2">> ELSE <<>>] }

\* the header collections a request carries before the merge
RequestHeaderInputs ==
    { [n \in Names |-> IF n = CONTENT_TYPE THEN <<"v2", "v1">> ELSE <<>>],
      [n \in Names |-> IF n = USER_AGENT THEN <<"v1">> ELSE <<>>] }

VARIABLES
    builder,      \* the ClientBuilder being configured: [state, config]; state is
                  \* "none", "open", or what build() returned: "built", "failed"
    said,         \* what the calls on that builder were given (history)
    arcs,         \* the Arc<Config> allocations, in the order build made them
    clients,      \* the Client handles: [config, wstd_client] (indices)
    req,          \* the request of the last direct merge_headers call
    calls,        \* the execute calls: one record per call
    resp,         \* a Response: [state, status, url, body]
    checked,      \* what the last error_for_status(_ref) returned
    stream,       \* the DataStream made by bytes_stream and what it yielded
    rhead,        \* the headers of that Response: [content_type, content_length]
    decoded,      \* what the decode operations on that Response did: how many
                  \* times its body was collected, and what the last one returned
    seen          \* what the last accessor of that Response returned

respVars == <<resp, checked, stream, rhead, decoded, seen>>

vars == <<builder, said, arcs, clients, req, calls, resp, checked, stream, rhead, decoded,
         seen>>

\* ------------------------------------------------------------------------
\* ClientBuilder
\* ------------------------------------------------------------------------
NoValue == "none"
NothingSaid == [invalid |-> FALSE, lastInvalid |-> FALSE,
                set |-> [n \in Names |-> NoValue]]

\* the value under which a collection leaves name n: the last one it stores
LastGiven(headers, n) == headers[n][Len(headers[n])]

\* ClientBuilder::new
ClientBuilder_new ==
    /\ builder.state # "open"
    /\ builder' = [state |-> "open", config |-> Config_default]
    /\ said' = NothingSaid
    /\ UNCHANGED <<arcs, clients, req, calls, respVars>>

\* user_agent with a valid value clearing the recorded error
user_agent_config_clearing(config, value) ==
    IF value \in InvalidValues
    THEN [config EXCEPT !.error = BuilderError]
    ELSE [config EXCEPT !.headers = insert(config.headers, USER_AGENT, value),
                        !.error = NoError]

\* user_agent with an invalid value removing the User-Agent set before
user_agent_config_dropping(config, value) ==
    IF value \in InvalidValues
    THEN [config EXCEPT !.error = BuilderError, !.headers[USER_AGENT] = <<>>]
    ELSE [config EXCEPT !.headers = insert(config.headers, USER_AGENT, value)]

\* user_agent using HeaderMap::append in place of HeaderMap::insert
user_agent_config_appending(config, value) ==
    IF value \in InvalidValues
    THEN [config EXCEPT !.error = BuilderError]
    ELSE [config EXCEPT !.headers[USER_AGENT] = Append(@, value)]

\* the configuration after user_agent(value)
user_agent_config(config, value) ==
    IF value \in InvalidValues
    THEN [config EXCEPT !.error = BuilderError]
    ELSE [config EXCEPT !.headers = insert(config.headers, USER_AGENT, value)]

\* ClientBuilder::user_agent
user_agent(value) ==
    /\ builder.state = "open"
    /\ builder' = [builder EXCEPT !.config = user_agent_config(builder.config, value)]
    /\ said' = IF value \in InvalidValues
               THEN [said EXCEPT !.invalid = TRUE, !.lastInvalid = TRUE]
               ELSE [said EXCEPT !.set[USER_AGENT] = value, !.lastInvalid = FALSE]
    /\ UNCHANGED <<arcs, clients, req, calls, respVars>>

\* the loop of default_headers: insert every pair of the given collection
RECURSIVE InsertAll(_, _)
InsertAll(h, pairs) ==
    IF pairs = <<>> THEN h
    ELSE InsertAll(insert(h, Head(pairs)[1], Head(pairs)[2]), Tail(pairs))

\* default_headers using HeaderMap::append in place of HeaderMap::insert
RECURSIVE AppendAll(_, _)
AppendAll(h, pairs) ==
    IF pairs = <<>> THEN h
    ELSE AppendAll([h EXCEPT ![Head(pairs)[1]] = Append(@, Head(pairs)[2])], Tail(pairs))

default_headers_config_appending(config, headers) ==
    [config EXCEPT !.headers = AppendAll(config.headers, iter(headers))]

\* the configuration after default_headers(headers)
default_headers_config(config, headers) ==
    [config EXCEPT !.headers = InsertAll(config.headers, iter(headers))]

\* ClientBuilder::default_headers
default_headers(headers) ==
    /\ builder.state = "open"
    /\ builder' = [builder EXCEPT !.config = default_headers_config(builder.config, headers)]
    /\ said' = [said EXCEPT !.lastInvalid = FALSE, !.set = [n \in Names |->
                    IF headers[n] # <<>> THEN LastGiven(headers, n) ELSE said.set[n]]]
    /\ UNCHANGED <<arcs, clients, req, calls, respVars>>

\* ClientBuilder::build
build ==
    /\ builder.state = "open"
    /\ IF builder.config.error # NoError
       THEN /\ builder' = [state |-> "failed", config |-> builder.config]
            /\ UNCHANGED <<arcs, clients>>
       ELSE /\ Len(arcs) < MaxBuilds
            /\ Len(clients) < MaxClients
            /\ arcs' = Append(arcs, builder.config)
            /\ clients' = Append(clients, [config |-> Len(arcs) + 1,
                                           wstd_client |-> Len(arcs) + 1])
            /\ builder' = [state |-> "built", config |-> Config_default]
    /\ UNCHANGED <<said, req, calls, respVars>>

\* ------------------------------------------------------------------------
\* Client
\* ------------------------------------------------------------------------
\* #[derive(Clone)] on Client: both Arcs are shared
Client_clone(c) ==
    /\ Len(clients) < MaxClients
    /\ clients' = Append(clients, clients[c])
    /\ UNCHANGED <<builder, said, arcs, req, calls, respVars>>

\* the loop of merge_headers: a default is inserted where the entry is vacant
RECURSIVE MergeLoop(_, _)
MergeLoop(headers, pairs) ==
    IF pairs = <<>> THEN headers
    ELSE LET key == Head(pairs)[1]
             value == Head(pairs)[2]
         IN MergeLoop(IF headers[key] = <<>> THEN insert(headers, key, value)
                      ELSE headers,
                      Tail(pairs))

\* merge_headers inserting every default, whether the entry is vacant or not
merge_headers_overwriting(config, headers) == InsertAll(headers, iter(config.headers))

\* Client::merge_headers: the request's headers after the merge
merge_headers(config, headers) == MergeLoop(headers, iter(config.headers))

\* merge_headers writing the request's headers into the shared defaults too
MergeRequest_into_defaults(c, headers) ==
    /\ req' = [client |-> c, before |-> headers,
               headers |-> merge_headers(arcs[clients[c].config], headers)]
    /\ arcs' = [arcs EXCEPT ![clients[c].config].headers = InsertAll(@, iter(headers))]
    /\ UNCHANGED <<builder, said, clients, calls, respVars>>

\* a direct call of merge_headers on a fresh request, as the unit tests do
MergeRequest(c, headers) ==
    /\ req' = [client |-> c, before |-> headers,
               headers |-> merge_headers(arcs[clients[c].config], headers)]
    /\ UNCHANGED <<builder, said, arcs, clients, calls, respVars>>


\* ------------------------------------------------------------------------
\* Client::execute
\* ------------------------------------------------------------------------
\* how many execute calls may run, concurrently or one after another
MaxCalls == 2
CallIds == 1..MaxCalls

Urls == {"https://a.example/", "https://b.example/"}
NoUrl == "none"

\* crate::error::request(cause): a Request-kind error; it is a timeout when
\* its cause is TimedOut
TimedOut == "TimedOut"
TransportFailure == "wstd::http::Error"
request_error(cause) == [kind |-> "Request", timeout |-> (cause = TimedOut)]

\* Response::new(http, url); http names the send whose response it wraps
Response_new(http, url) == [http |-> http, url |-> url]
NoResponse == [http |-> 0, url |-> NoUrl]

Ok(response) == [ok |-> TRUE, error |-> NoError, response |-> response]
Err(error) == [ok |-> FALSE, error |-> error, response |-> NoResponse]
NoResult == [ok |-> FALSE, error |-> NoError, response |-> NoResponse]

\* the requests handed to execute in the model: with and without a timeout,
\* with and without headers of their own, one that does not convert
ExecRequestInputs ==
    { [headers |-> [n \in Names |-> IF n = USER_AGENT THEN <<"v2">> ELSE <<>>],
       url |-> "https://a.example/", timeout |-> "Some", convertible |-> TRUE],
      [headers |-> EmptyHeaders,
       url |-> "https://b.example/", timeout |-> "Some", convertible |-> TRUE],
      [headers |-> EmptyHeaders,
       url |-> "https://b.example/", timeout |-> "None", convertible |-> TRUE],
      [headers |-> EmptyHeaders,
       url |-> "https://a.example/", timeout |-> "Some", convertible |-> FALSE] }

NoRequest == [headers |-> EmptyHeaders, url |-> NoUrl, timeout |-> "None",
              convertible |-> TRUE]

IdleCall == [pc |-> "idle", client |-> 0, request |-> NoRequest, url |-> NoUrl,
             wire |-> <<>>, send |-> "none", timer |-> "none", peers |-> {},
             result |-> NoResult]

\* Request::as_wstd: the transport's native request, or an error
as_wstd(request) ==
    IF request.convertible
    THEN [ok |-> TRUE, error |-> NoError,
          native |-> [headers |-> request.headers, url |-> request.url]]
    ELSE [ok |-> FALSE, error |-> request_error("as_wstd"),
          native |-> [headers |-> EmptyHeaders, url |-> NoUrl]]

\* the timeout error given to a failure of the send too, when a timeout is set
send_result_masking(timeout, raced, http, url) ==
    IF timeout = "Some" /\ (raced.elapsed \/ raced.outcome = "err")
    THEN Err(request_error(TimedOut))
    ELSE IF raced.outcome = "err"
         THEN Err(request_error(TransportFailure))
         ELSE Ok(Response_new(http, url))

\* a failure of the send turned into a Response
send_result_swallowing(timeout, raced, http, url) ==
    IF timeout = "Some" /\ raced.elapsed
    THEN Err(request_error(TimedOut))
    ELSE Ok(Response_new(http, url))

\* the value of execute_request once its await has resolved: raced.elapsed
\* says that the timer won the race, raced.outcome how the send ended
send_result(timeout, raced, http, url) ==
    IF timeout = "Some" /\ raced.elapsed
    THEN Err(request_error(TimedOut))
    ELSE IF raced.outcome = "err"
         THEN Err(request_error(TransportFailure))
         ELSE Ok(Response_new(http, url))

\* the request sent as it was given, the defaults merged into it too late
execute_request_unmerged(i, c, request) ==
    /\ calls[i].pc = "idle"
    /\ LET merged == [request EXCEPT
                        !.headers = merge_headers(arcs[clients[c].config], request.headers)]
           url == merged.url
           timeout == merged.timeout
           native == as_wstd(request)
       IN calls' = [calls EXCEPT ![i] =
             IF ~native.ok
             THEN [IdleCall EXCEPT !.pc = "done", !.client = c, !.request = request,
                                   !.url = url, !.result = Err(native.error)]
             ELSE [IdleCall EXCEPT !.pc = "awaiting", !.client = c, !.request = request,
                                   !.url = url, !.wire = <<native.native>>,
                                   !.send = "inflight",
                                   !.timer = IF timeout = "Some" THEN "armed" ELSE "none"]]
    /\ UNCHANGED <<builder, said, arcs, clients, req, respVars>>

\* the send raced against a timer whether or not the request has a timeout
execute_request_always_timed(i, c, request) ==
    /\ calls[i].pc = "idle"
    /\ LET merged == [request EXCEPT
                        !.headers = merge_headers(arcs[clients[c].config], request.headers)]
           url == merged.url
           timeout == merged.timeout
           native == as_wstd(merged)
       IN calls' = [calls EXCEPT ![i] =
             IF ~native.ok
             THEN [IdleCall EXCEPT !.pc = "done", !.client = c, !.request = request,
                                   !.url = url, !.result = Err(native.error)]
             ELSE [IdleCall EXCEPT !.pc = "awaiting", !.client = c, !.request = request,
                                   !.url = url, !.wire = <<native.native>>,
                                   !.send = "inflight",
                                   !.timer = "armed"]]
    /\ UNCHANGED <<builder, said, arcs, clients, req, respVars>>

\* the timer started before the request is converted
execute_request_timer_first(i, c, request) ==
    /\ calls[i].pc = "idle"
    /\ LET merged == [request EXCEPT
                        !.headers = merge_headers(arcs[clients[c].config], request.headers)]
           url == merged.url
           timeout == merged.timeout
           native == as_wstd(merged)
       IN calls' = [calls EXCEPT ![i] =
             IF ~native.ok
             THEN [IdleCall EXCEPT !.pc = "done", !.client = c, !.request = request,
                                   !.url = url, !.result = Err(native.error),
                                   !.timer = IF timeout = "Some" THEN "dropped"
                                             ELSE "none"]
             ELSE [IdleCall EXCEPT !.pc = "awaiting", !.client = c, !.request = request,
                                   !.url = url, !.wire = <<native.native>>,
                                   !.send = "inflight",
                                   !.timer = IF timeout = "Some" THEN "armed" ELSE "none"]]
    /\ UNCHANGED <<builder, said, arcs, clients, req, respVars>>

\* Client::execute_request, up to its await: merge, snapshot, convert, send
execute_request(i, c, request) ==
    /\ calls[i].pc = "idle"
    /\ LET merged == [request EXCEPT
                        !.headers = merge_headers(arcs[clients[c].config], request.headers)]
           url == merged.url
           timeout == merged.timeout
           native == as_wstd(merged)
       IN calls' = [calls EXCEPT ![i] =
             IF ~native.ok
             THEN [IdleCall EXCEPT !.pc = "done", !.client = c, !.request = request,
                                   !.url = url, !.result = Err(native.error)]
             ELSE [IdleCall EXCEPT !.pc = "awaiting", !.client = c, !.request = request,
                                   !.url = url, !.wire = <<native.native>>,
                                   !.send = "inflight",
                                   !.timer = IF timeout = "Some" THEN "armed" ELSE "none"]]
    /\ UNCHANGED <<builder, said, arcs, clients, req, respVars>>

\* the calls whose send is in flight on the transport handle of call i
InFlightWith(i) ==
    {j \in CallIds \ {i} : /\ calls[j].send = "inflight"
                           /\ clients[calls[j].client].wstd_client
                                = clients[calls[i].client].wstd_client}

\* a failed send sent once more
SendCompletes_retrying(i, outcome) ==
    /\ calls[i].pc = "awaiting"
    /\ calls[i].send = "inflight"
    /\ calls' = [calls EXCEPT ![i] =
          IF outcome = "err" /\ Len(calls[i].wire) < 2
          THEN [@ EXCEPT !.wire = Append(@, calls[i].wire[1])]
          ELSE [@ EXCEPT !.pc = "done",
                         !.send = outcome,
                         !.timer = IF @ = "armed" THEN "dropped" ELSE @,
                         !.peers = InFlightWith(i),
                         !.result = send_result(calls[i].request.timeout,
                                                [elapsed |-> FALSE, outcome |-> outcome],
                                                i, calls[i].url)]]
    /\ UNCHANGED <<builder, said, arcs, clients, req, respVars>>

\* the Response made with the URL of the call that was started last on the
\* shared transport handle
SendCompletes_sharing_url(i, outcome) ==
    /\ calls[i].pc = "awaiting"
    /\ calls[i].send = "inflight"
    /\ LET last == IF InFlightWith(i) = {} THEN i ELSE CHOOSE j \in InFlightWith(i) : TRUE
       IN calls' = [calls EXCEPT ![i] =
             [@ EXCEPT !.pc = "done",
                       !.send = outcome,
                       !.timer = IF @ = "armed" THEN "dropped" ELSE @,
                       !.peers = InFlightWith(i),
                       !.result = send_result(calls[i].request.timeout,
                                              [elapsed |-> FALSE, outcome |-> outcome],
                                              i, calls[last].url)]]
    /\ UNCHANGED <<builder, said, arcs, clients, req, respVars>>

\* the send of call i completes first: the call resumes with its outcome and
\* the timer, if any, is dropped
SendCompletes(i, outcome) ==
    /\ calls[i].pc = "awaiting"
    /\ calls[i].send = "inflight"
    /\ calls' = [calls EXCEPT ![i] =
          [@ EXCEPT !.pc = "done",
                    !.send = outcome,
                    !.timer = IF @ = "armed" THEN "dropped" ELSE @,
                    !.peers = InFlightWith(i),
                    !.result = send_result(calls[i].request.timeout,
                                           [elapsed |-> FALSE, outcome |-> outcome],
                                           i, calls[i].url)]]
    /\ UNCHANGED <<builder, said, arcs, clients, req, respVars>>

\* the timeout returned while the send is left running, detached
TimerElapses_detaching(i) ==
    /\ calls[i].pc = "awaiting"
    /\ calls[i].timer = "armed"
    /\ calls[i].send = "inflight"
    /\ calls' = [calls EXCEPT ![i] =
          [@ EXCEPT !.pc = "done",
                    !.timer = "fired",
                    !.peers = InFlightWith(i),
                    !.result = send_result(calls[i].request.timeout,
                                           [elapsed |-> TRUE, outcome |-> "none"],
                                           i, calls[i].url)]]
    /\ UNCHANGED <<builder, said, arcs, clients, req, respVars>>

\* the timeout cancelling every send in flight on the shared transport handle
TimerElapses_cancelling_all(i) ==
    /\ calls[i].pc = "awaiting"
    /\ calls[i].timer = "armed"
    /\ calls[i].send = "inflight"
    /\ calls' = [j \in CallIds |->
          IF j = i
          THEN [calls[i] EXCEPT !.pc = "done",
                                !.send = "cancelled",
                                !.timer = "fired",
                                !.peers = InFlightWith(i),
                                !.result = send_result(calls[i].request.timeout,
                                              [elapsed |-> TRUE, outcome |-> "none"],
                                              i, calls[i].url)]
          ELSE IF j \in InFlightWith(i)
               THEN [calls[j] EXCEPT !.send = "cancelled"]
               ELSE calls[j]]
    /\ UNCHANGED <<builder, said, arcs, clients, req, respVars>>

\* the timer of call i elapses first: the call resumes with the timeout and
\* the send future is dropped with the Timeout future that owns it
TimerElapses(i) ==
    /\ calls[i].pc = "awaiting"
    /\ calls[i].timer = "armed"
    /\ calls[i].send = "inflight"
    /\ calls' = [calls EXCEPT ![i] =
          [@ EXCEPT !.pc = "done",
                    !.send = "cancelled",
                    !.timer = "fired",
                    !.peers = InFlightWith(i),
                    !.result = send_result(calls[i].request.timeout,
                                           [elapsed |-> TRUE, outcome |-> "none"],
                                           i, calls[i].url)]]
    /\ UNCHANGED <<builder, said, arcs, clients, req, respVars>>

\* ------------------------------------------------------------------------
\* Response
\* ------------------------------------------------------------------------
\* how many frames a body may hold
MaxFrames == 3

\* status codes on both sides of every class boundary
Statuses == {100, 200, 399, 400, 499, 500, 599, 600}

DataFrame(bytes) == [kind |-> "data", bytes |-> bytes]
TrailerFrame == [kind |-> "trailers", bytes |-> ""]
ErrorFrame == [kind |-> "error", bytes |-> ""]
Frames == {DataFrame("a"), DataFrame("b"), TrailerFrame, ErrorFrame}
Bodies == UNION {[1..k -> Frames] : k \in 0..MaxFrames}

NoResp == [state |-> "none", status |-> 0, url |-> NoUrl, body |-> <<>>]
NoCheck == [op |-> "none", ok |-> FALSE,
            error |-> [kind |-> "None", url |-> NoUrl, status |-> 0],
            response |-> NoResp]
NoStream == [state |-> "none", body |-> <<>>, items |-> <<>>, ended |-> FALSE]

\* StatusCode::is_client_error, StatusCode::is_server_error
is_client_error(status) == 400 <= status /\ status < 500
is_server_error(status) == 500 <= status /\ status < 600

\* crate::error::status_code(url, status)
status_code(url, status) == [kind |-> "Status", url |-> url, status |-> status]

\* error_for_status treating only client errors as errors
error_for_status_result_client_only(op, self) ==
    LET status == self.status
    IN IF is_client_error(status)
       THEN [op |-> op, ok |-> FALSE, error |-> status_code(self.url, status),
             response |-> NoResp]
       ELSE [op |-> op, ok |-> TRUE,
             error |-> [kind |-> "None", url |-> NoUrl, status |-> 0],
             response |-> self]

\* the body of error_for_status and of error_for_status_ref
error_for_status_result(op, self) ==
    LET status == self.status
    IN IF is_client_error(status) \/ is_server_error(status)
       THEN [op |-> op, ok |-> FALSE, error |-> status_code(self.url, status),
             response |-> NoResp]
       ELSE [op |-> op, ok |-> TRUE,
             error |-> [kind |-> "None", url |-> NoUrl, status |-> 0],
             response |-> self]

\* Response::error_for_status: takes the response, gives it back unless it
\* is an error
error_for_status ==
    /\ resp.state = "live"
    /\ checked' = error_for_status_result("error_for_status", resp)
    /\ resp' = IF checked'.ok THEN resp ELSE [resp EXCEPT !.state = "moved"]
    /\ UNCHANGED <<builder, said, arcs, clients, req, calls, stream, rhead, decoded, seen>>

\* Response::error_for_status_ref: borrows the response
error_for_status_ref ==
    /\ resp.state = "live"
    /\ checked' = error_for_status_result("error_for_status_ref", resp)
    /\ UNCHANGED <<builder, said, arcs, clients, req, calls, resp, stream, rhead, decoded,
                   seen>>

\* Response::bytes_stream: the body moves into a DataStream
bytes_stream ==
    /\ resp.state = "live"
    /\ stream' = [state |-> "open", body |-> resp.body, items |-> <<>>, ended |-> FALSE]
    /\ resp' = [resp EXCEPT !.state = "moved"]
    /\ UNCHANGED <<builder, said, arcs, clients, req, calls, checked, rhead, decoded, seen>>

\* the items of the stream
OkItem(bytes) == [some |-> TRUE, ok |-> TRUE, bytes |-> bytes]
ErrItem == [some |-> TRUE, ok |-> FALSE, bytes |-> ""]
None == [some |-> FALSE, ok |-> FALSE, bytes |-> ""]

\* poll_next ending the stream at the first frame that is not data
poll_next_loop_ending_at_trailer(body) ==
    IF body = <<>> THEN [item |-> None, body |-> body]
    ELSE LET frame == Head(body)
         IN IF frame.kind = "error" THEN [item |-> ErrItem, body |-> Tail(body)]
            ELSE IF frame.kind = "data"
                 THEN [item |-> OkItem(frame.bytes), body |-> Tail(body)]
                 ELSE [item |-> None, body |-> Tail(body)]

\* the loop of DataStream::poll_next over a body whose frames are ready: the
\* item it returns and the body that is left
RECURSIVE poll_next_loop(_)
poll_next_loop(body) ==
    IF body = <<>> THEN [item |-> None, body |-> body]
    ELSE LET frame == Head(body)
         IN IF frame.kind = "error" THEN [item |-> ErrItem, body |-> Tail(body)]
            ELSE IF frame.kind = "data"
                 THEN [item |-> OkItem(frame.bytes), body |-> Tail(body)]
                 ELSE poll_next_loop(Tail(body))

\* DataStream::poll_next
poll_next ==
    /\ stream.state = "open"
    /\ LET polled == poll_next_loop(stream.body)
       IN stream' = [stream EXCEPT
                       !.body = polled.body,
                       !.items = IF polled.item.some THEN Append(@, polled.item) ELSE @,
                       !.ended = ~polled.item.some]
    /\ UNCHANGED <<builder, said, arcs, clients, req, calls, resp, checked, rhead, decoded,
                   seen>>

\* ------------------------------------------------------------------------
\* Response: headers, accessors and the decode operations
\* ------------------------------------------------------------------------
\* char::REPLACEMENT_CHARACTER, U+FFFD
REPLACEMENT_CHARACTER == 65533
\* the byte-order mark, U+FEFF
BOM == 65279

clientVars == <<builder, said, arcs, clients, req, calls>>

NoHead == [content_type |-> NoValue, content_length |-> NoValue]
NoDecoded == [op |-> "none", default |-> NoValue, reads |-> 0, ok |-> FALSE,
              kind |-> "None", encoding |-> "none", bytes |-> <<>>, text |-> <<>>]
NoSeen == [op |-> "none", status |-> 0, url |-> NoUrl, headers |-> NoHead,
           content_length |-> [some |-> FALSE, n |-> 0]]

\* header values that hold a byte outside visible ASCII
OpaqueValues == {"text/plain; charset=iso-8859-1; <E9>", "<E9>"}

\* HeaderValue::to_str: the value as a str, unless it holds such a byte
to_str(value) ==
    IF value \in OpaqueValues THEN [ok |-> FALSE, str |-> ""]
    ELSE [ok |-> TRUE, str |-> value]

\* str::parse::<u64> on the values of the model
parse_u64(str) ==
    IF str = "3" THEN [ok |-> TRUE, n |-> 3]
    ELSE IF str = "0" THEN [ok |-> TRUE, n |-> 0]
    ELSE [ok |-> FALSE, n |-> 0]

\* str::parse::<Mime> on the values of the model, with Mime::get_param("charset")
parse_Mime(str) ==
    IF str = "text/plain" THEN [ok |-> TRUE, charset |-> NoValue]
    ELSE IF str = "text/plain; charset=utf-8" THEN [ok |-> TRUE, charset |-> "utf-8"]
    ELSE IF str = "text/plain; charset=iso-8859-1"
         THEN [ok |-> TRUE, charset |-> "iso-8859-1"]
    ELSE IF str = "text/plain; charset=bogus" THEN [ok |-> TRUE, charset |-> "bogus"]
    ELSE [ok |-> FALSE, charset |-> NoValue]

\* Encoding::for_label on the labels of the model
for_label(label) ==
    IF label \in {"utf-8", "utf8"} THEN [some |-> TRUE, encoding |-> "UTF-8"]
    ELSE IF label \in {"iso-8859-1", "latin1"}
         THEN [some |-> TRUE, encoding |-> "windows-1252"]
    ELSE [some |-> FALSE, encoding |-> "none"]

\* Response::status, Response::headers, Response::url: they borrow the response
Response_status ==
    /\ resp.state = "live"
    /\ seen' = [NoSeen EXCEPT !.op = "status", !.status = resp.status]
    /\ UNCHANGED <<clientVars, resp, checked, stream, rhead, decoded>>

Response_headers ==
    /\ resp.state = "live"
    /\ seen' = [NoSeen EXCEPT !.op = "headers", !.headers = rhead]
    /\ UNCHANGED <<clientVars, resp, checked, stream, rhead, decoded>>

Response_url ==
    /\ resp.state = "live"
    /\ seen' = [NoSeen EXCEPT !.op = "url", !.url = resp.url]
    /\ UNCHANGED <<clientVars, resp, checked, stream, rhead, decoded>>

\* Response::content_length: the header as a number, if it is there and is one
content_length_of(head) ==
    IF head.content_length = NoValue THEN [some |-> FALSE, n |-> 0]
    ELSE LET str == to_str(head.content_length)
         IN IF ~str.ok THEN [some |-> FALSE, n |-> 0]
            ELSE LET n == parse_u64(str.str)
                 IN IF n.ok THEN [some |-> TRUE, n |-> n.n] ELSE [some |-> FALSE, n |-> 0]

Response_content_length ==
    /\ resp.state = "live"
    /\ seen' = [NoSeen EXCEPT !.op = "content_length",
                             !.content_length = content_length_of(rhead)]
    /\ UNCHANGED <<clientVars, resp, checked, stream, rhead, decoded>>

\* BodyExt::collect and Collected::to_bytes: the bytes of the data frames up to
\* the end of the body, or the error of the body
RECURSIVE collect(_)
collect(body) ==
    IF body = <<>> THEN [ok |-> TRUE, bytes |-> <<>>]
    ELSE LET frame == Head(body)
         IN IF frame.kind = "error" THEN [ok |-> FALSE, bytes |-> <<>>]
            ELSE LET rest == collect(Tail(body))
                 IN IF ~rest.ok THEN rest
                    ELSE [ok |-> TRUE,
                          bytes |-> (IF frame.kind = "data" THEN frame.bytes ELSE <<>>)
                                       \o rest.bytes]

\* what a decode operation returns
DecodeOk(bytes, encoding, text) ==
    [ok |-> TRUE, kind |-> "None", encoding |-> encoding, bytes |-> bytes, text |-> text]
DecodeErr(kind) ==
    [ok |-> FALSE, kind |-> kind, encoding |-> "none", bytes |-> <<>>, text |-> <<>>]

\* the body of Response::bytes
bytes_result(body) ==
    LET full == collect(body)
    IN IF full.ok THEN DecodeOk(full.bytes, "none", <<>>) ELSE DecodeErr("Body")

\* a byte that continues a UTF-8 sequence
IsContinuation(b) == 128 <= b /\ b <= 191

\* String::from_utf8_lossy, and UTF-8 decoding in encoding_rs, on sequences of
\* one, two and three bytes: each maximal ill-formed part becomes one
\* REPLACEMENT_CHARACTER
RECURSIVE from_utf8_lossy(_)
from_utf8_lossy(b) ==
    IF b = <<>> THEN <<>>
    ELSE LET x == b[1]
             n == Len(b)
             from(k) == from_utf8_lossy(SubSeq(b, k, n))
         IN IF x < 128 THEN <<x>> \o from(2)
            ELSE IF 194 <= x /\ x <= 223
                 THEN IF n >= 2 /\ IsContinuation(b[2])
                      THEN <<(x - 192) * 64 + (b[2] - 128)>> \o from(3)
                      ELSE <<REPLACEMENT_CHARACTER>> \o from(2)
            ELSE IF 224 <= x /\ x <= 239
                 THEN IF /\ n >= 2
                         /\ IsContinuation(b[2])
                         /\ x = 224 => b[2] >= 160
                         /\ x = 237 => b[2] <= 159
                      THEN IF n >= 3 /\ IsContinuation(b[3])
                           THEN <<(x - 224) * 4096 + (b[2] - 128) * 64 + (b[3] - 128)>>
                                   \o from(4)
                           ELSE <<REPLACEMENT_CHARACTER>> \o from(3)
                      ELSE <<REPLACEMENT_CHARACTER>> \o from(2)
            ELSE <<REPLACEMENT_CHARACTER>> \o from(2)

\* the windows-1252 decoder, which is what the labels iso-8859-1 and latin1
\* name; the bodies of the model hold no byte of 129..159
windows_1252(b) == IF b = 128 THEN 8364 ELSE b

\* Encoding::decode_without_bom_handling
decode_without_bom_handling(encoding, b) ==
    IF encoding = "windows-1252" THEN [k \in 1..Len(b) |-> windows_1252(b[k])]
    ELSE from_utf8_lossy(b)

\* Encoding::for_bom on the UTF-8 mark; the bodies of the model hold no
\* UTF-16 mark
for_bom(b) ==
    IF Len(b) >= 3 /\ SubSeq(b, 1, 3) = <<239, 187, 191>>
    THEN [some |-> TRUE, encoding |-> "UTF-8", length |-> 3]
    ELSE [some |-> FALSE, encoding |-> "none", length |-> 0]

\* Encoding::decode: the encoding of a byte-order mark wins over the encoding
\* asked for, and the mark is left out of the text
Encoding_decode(encoding, b) ==
    LET bom == for_bom(b)
    IN IF bom.some
       THEN decode_without_bom_handling(bom.encoding, SubSeq(b, bom.length + 1, Len(b)))
       ELSE decode_without_bom_handling(encoding, b)

\* the Content-Type header of a response as a Mime, if it is there, is a str
\* and parses
content_type_of(head) ==
    IF head.content_type = NoValue THEN [ok |-> FALSE, charset |-> NoValue]
    ELSE LET str == to_str(head.content_type)
         IN IF ~str.ok THEN [ok |-> FALSE, charset |-> NoValue] ELSE parse_Mime(str.str)

\* the default encoding taken even where the header names a charset
encoding_name_default_first(content_type, default_encoding) ==
    IF for_label(default_encoding).some THEN default_encoding
    ELSE IF content_type.ok /\ content_type.charset # NoValue
         THEN content_type.charset
         ELSE default_encoding

\* the encoding name text_with_charset settles on
encoding_name(content_type, default_encoding) ==
    IF content_type.ok /\ content_type.charset # NoValue
    THEN content_type.charset
    ELSE default_encoding

\* the body of Response::text_with_charset
text_with_charset_result(head, body, default_encoding) ==
    LET name == encoding_name(content_type_of(head), default_encoding)
        label == for_label(name)
        encoding == IF label.some THEN label.encoding ELSE "UTF-8"
        full == bytes_result(body)
    IN IF ~full.ok THEN full
       ELSE DecodeOk(full.bytes, encoding, Encoding_decode(encoding, full.bytes))

\* the body of Response::text where the charset feature is off
text_result(body) ==
    LET full == bytes_result(body)
    IN IF ~full.ok THEN full
       ELSE DecodeOk(full.bytes, "none", from_utf8_lossy(full.bytes))

\* serde_json::from_slice::<String>: a JSON string of well-formed UTF-8
\* between two quotes; the bodies of the model hold no escape and no blank
from_slice(b) ==
    LET n == Len(b)
        inner == SubSeq(b, 2, n - 1)
        text == from_utf8_lossy(inner)
    IN IF /\ n >= 2
          /\ b[1] = 34
          /\ b[n] = 34
          /\ \A k \in DOMAIN inner : inner[k] # 34
          /\ \A k \in DOMAIN text : text[k] # REPLACEMENT_CHARACTER
       THEN [ok |-> TRUE, value |-> text]
       ELSE [ok |-> FALSE, value |-> <<>>]

\* the body of Response::json
json_result(body) ==
    LET full == bytes_result(body)
    IN IF ~full.ok THEN full
       ELSE LET value == from_slice(full.bytes)
            IN IF value.ok THEN DecodeOk(full.bytes, "none", value.value)
               ELSE DecodeErr("Decode")

\* one more collect of the body, by the operation op
Decoded(op, result) ==
    [op |-> op, default |-> NoValue, reads |-> decoded.reads + 1, ok |-> result.ok,
     kind |-> result.kind, encoding |-> result.encoding, bytes |-> result.bytes,
     text |-> result.text]

\* bytes borrowing the response instead of taking it
Response_bytes_borrowing ==
    /\ resp.state = "live"
    /\ decoded.reads < 2
    /\ decoded' = Decoded("bytes", bytes_result(resp.body))
    /\ UNCHANGED <<clientVars, resp, checked, stream, rhead, seen>>

\* Response::bytes: takes the response and collects its body
Response_bytes ==
    /\ resp.state = "live"
    /\ decoded' = Decoded("bytes", bytes_result(resp.body))
    /\ resp' = [resp EXCEPT !.state = "moved"]
    /\ UNCHANGED <<clientVars, checked, stream, rhead, seen>>

\* Response::text_with_charset, of the charset feature
Response_text_with_charset(default_encoding) ==
    /\ resp.state = "live"
    /\ decoded' = [Decoded("text_with_charset",
                           text_with_charset_result(rhead, resp.body, default_encoding))
                      EXCEPT !.default = default_encoding]
    /\ resp' = [resp EXCEPT !.state = "moved"]
    /\ UNCHANGED <<clientVars, checked, stream, rhead, seen>>

\* Response::text where the charset feature is on
Response_text_charset ==
    /\ resp.state = "live"
    /\ decoded' = Decoded("text", text_with_charset_result(rhead, resp.body, "utf-8"))
    /\ resp' = [resp EXCEPT !.state = "moved"]
    /\ UNCHANGED <<clientVars, checked, stream, rhead, seen>>

\* Response::text where the charset feature is off
Response_text ==
    /\ resp.state = "live"
    /\ decoded' = Decoded("text", text_result(resp.body))
    /\ resp' = [resp EXCEPT !.state = "moved"]
    /\ UNCHANGED <<clientVars, checked, stream, rhead, seen>>

\* Response::json
Response_json ==
    /\ resp.state = "live"
    /\ decoded' = Decoded("json", json_result(resp.body))
    /\ resp' = [resp EXCEPT !.state = "moved"]
    /\ UNCHANGED <<clientVars, checked, stream, rhead, seen>>

\* ------------------------------------------------------------------------
\* Specifications
\* ------------------------------------------------------------------------
NoMerge == [client |-> 0, before |-> EmptyHeaders, headers |-> EmptyHeaders]
NoCalls == [i \in CallIds |-> IdleCall]
InitNoResponse ==
    /\ resp = NoResp /\ checked = NoCheck /\ stream = NoStream
    /\ rhead = NoHead /\ decoded = NoDecoded /\ seen = NoSeen

\* building clients, cloning them and merging headers
InitBuild ==
    /\ builder = [state |-> "none", config |-> Config_default]
    /\ said = NothingSaid
    /\ arcs = <<>>
    /\ clients = <<>>
    /\ req = NoMerge
    /\ calls = NoCalls
    /\ InitNoResponse

NextBuild ==
    \/ ClientBuilder_new
    \/ \E value \in Values \cup InvalidValues : user_agent(value)
    \/ \E headers \in DefaultHeaderInputs : default_headers(headers)
    \/ build
    \/ \E c \in DOMAIN clients : Client_clone(c)
    \/ \E c \in DOMAIN clients : \E headers \in RequestHeaderInputs : MergeRequest(c, headers)

SpecBuild == InitBuild /\ [][NextBuild]_vars

\* the calls that shape the default headers, on every input of the model, then
\* build and a merge with the Client built
NextDefaults ==
    \/ ClientBuilder_new
    \/ \E value \in Values : user_agent(value)
    \/ \E headers \in DefaultHeaderInputs : default_headers(headers)
    \/ build
    \/ \E c \in DOMAIN clients : \E headers \in RequestHeaderInputs : MergeRequest(c, headers)

SpecDefaults == InitBuild /\ [][NextDefaults]_vars

\* builders, clients, clones, merges and one execute call together, on few
\* inputs: every operation that runs while a built Client exists
NextClient ==
    \/ ClientBuilder_new
    \/ \E value \in {"v1"} : user_agent(value)
    \/ \E headers \in {[n \in Names |-> IF n = USER_AGENT THEN <<"v2">> ELSE <<>>]} :
          default_headers(headers)
    \/ build
    \/ \E c \in DOMAIN clients : Client_clone(c)
    \/ \E c \in DOMAIN clients :
          MergeRequest(c, [n \in Names |-> IF n = USER_AGENT THEN <<"v1">> ELSE <<"v1">>])
    \/ \E c \in DOMAIN clients : \E request \in ExecRequestInputs :
          execute_request(1, c, request)
    \/ \E outcome \in {"ok", "err"} : SendCompletes(1, outcome)
    \/ TimerElapses(1)

SpecClient == InitBuild /\ [][NextClient]_vars

\* merge_headers on every pair of a client's defaults and a request's headers
MaxValuesPerName == 2
SeqsUpTo(S, n) == UNION {[1..k -> S] : k \in 0..n}
\* the defaults a builder can leave: at most one value under a name
ReachableDefaults == [Names -> SeqsUpTo(Values, 1)]
AllRequestHeaders == [Names -> SeqsUpTo(Values, MaxValuesPerName)]

InitMerge ==
    /\ builder = [state |-> "built", config |-> Config_default]
    /\ said = NothingSaid
    /\ \E d \in ReachableDefaults : arcs = <<[headers |-> d, error |-> NoError]>>
    /\ clients = <<[config |-> 1, wstd_client |-> 1]>>
    /\ req = NoMerge
    /\ calls = NoCalls
    /\ InitNoResponse

NextMerge ==
    \E c \in DOMAIN clients : \E headers \in AllRequestHeaders : MergeRequest(c, headers)

SpecMerge == InitMerge /\ [][NextMerge]_vars

\* execute calls over two clones of one built client
InitExec ==
    /\ builder = [state |-> "built", config |-> Config_default]
    /\ said = [NothingSaid EXCEPT !.set = [n \in Names |->
                  IF n = CONTENT_TYPE THEN "v2" ELSE "v1"]]
    /\ arcs = <<[headers |-> [n \in Names |-> IF n = CONTENT_TYPE THEN <<"v2">>
                                                ELSE <<"v1">>],
                 error |-> NoError]>>
    /\ clients = <<[config |-> 1, wstd_client |-> 1], [config |-> 1, wstd_client |-> 1]>>
    /\ req = NoMerge
    /\ calls = NoCalls
    /\ InitNoResponse

NextExec ==
    \/ \E i \in CallIds : \E c \in DOMAIN clients : \E request \in ExecRequestInputs :
          execute_request(i, c, request)
    \/ \E i \in CallIds : \E outcome \in {"ok", "err"} : SendCompletes(i, outcome)
    \/ \E i \in CallIds : TimerElapses(i)

SpecExec == InitExec /\ [][NextExec]_vars

\* one Response of any status and body, and the operations on it
InitResp ==
    /\ builder = [state |-> "none", config |-> Config_default]
    /\ said = NothingSaid
    /\ arcs = <<>>
    /\ clients = <<>>
    /\ req = NoMerge
    /\ calls = NoCalls
    /\ resp \in [state : {"live"}, status : Statuses, url : Urls, body : Bodies]
    /\ checked = NoCheck
    /\ stream = NoStream
    /\ rhead = NoHead /\ decoded = NoDecoded /\ seen = NoSeen

NextResp ==
    \/ error_for_status
    \/ error_for_status_ref
    \/ bytes_stream
    \/ poll_next

SpecResp == InitResp /\ [][NextResp]_vars

\* one Response with headers and a body of bytes, and every operation on it
\* how many characters a text holds
MaxChars == 2

\* the texts: "A", U+00E9 and the byte-order mark, up to MaxChars characters
CodePoints == {65, 233, BOM}
TextStrings == SeqsUpTo(CodePoints, MaxChars)

\* str::as_bytes: the UTF-8 encoding of a text
utf8_encode_char(c) ==
    IF c < 128 THEN <<c>>
    ELSE IF c < 2048 THEN <<192 + (c \div 64), 128 + (c % 64)>>
    ELSE <<224 + (c \div 4096), 128 + ((c \div 64) % 64), 128 + (c % 64)>>

RECURSIVE utf8_encode(_)
utf8_encode(s) ==
    IF s = <<>> THEN <<>> ELSE utf8_encode_char(Head(s)) \o utf8_encode(Tail(s))

\* bytes that are no UTF-8: a byte that is never one, a sequence cut short, a
\* continuation on its own, a mark cut short; and the JSON string "A"
RawBytes == {<<255, 65>>, <<65, 195>>, <<233>>, <<239, 187, 65>>, <<34, 65, 34>>}
TextBytes == {utf8_encode(s) : s \in TextStrings} \cup RawBytes

\* a body of those bytes: in one data frame, in two with trailers between
\* them, or ending in an error
TextBodies ==
    {<<DataFrame(b)>> : b \in TextBytes}
    \cup {<<DataFrame(SubSeq(b, 1, 1)), TrailerFrame, DataFrame(SubSeq(b, 2, Len(b)))>> :
             b \in {x \in TextBytes : Len(x) >= 2}}
    \cup {<<DataFrame(b), ErrorFrame>> : b \in TextBytes}

ContentTypes == {NoValue, "text/plain", "text/plain; charset=utf-8",
                 "text/plain; charset=iso-8859-1", "text/plain; charset=bogus",
                 "not a mime", "text/plain; charset=iso-8859-1; <E9>"}
ResponseHeads ==
    {[content_type |-> t, content_length |-> NoValue] : t \in ContentTypes}
    \cup {[content_type |-> NoValue, content_length |-> l] : l \in {"3", "abc", "<E9>"}}
DefaultEncodings == {"utf-8", "latin1", "bogus"}

InitText ==
    /\ builder = [state |-> "none", config |-> Config_default]
    /\ said = NothingSaid
    /\ arcs = <<>>
    /\ clients = <<>>
    /\ req = NoMerge
    /\ calls = NoCalls
    /\ resp \in [state : {"live"}, status : {200, 500}, url : {"https://a.example/"},
                 body : TextBodies]
    /\ checked = NoCheck
    /\ stream = NoStream
    /\ rhead \in ResponseHeads
    /\ decoded = NoDecoded
    /\ seen = NoSeen

NextText ==
    \/ Response_status
    \/ Response_headers
    \/ Response_content_length
    \/ Response_url
    \/ error_for_status
    \/ error_for_status_ref
    \/ Response_bytes
    \/ Response_text
    \/ Response_text_charset
    \/ \E default_encoding \in DefaultEncodings : Response_text_with_charset(default_encoding)
    \/ Response_json
    \/ bytes_stream
    \/ poll_next

SpecText == InitText /\ [][NextText]_vars

\* ------------------------------------------------------------------------
\* Properties
\* ------------------------------------------------------------------------
\* the defaults of the client a merge or a call used
DefaultsOf(c) == arcs[clients[c].config].headers

\* the headers a builder holds are the values its calls gave last
HeadersAsSaid(headers) ==
    \A n \in Names : headers[n] = IF said.set[n] = NoValue THEN <<>> ELSE <<said.set[n]>>

\* C1: after merge_headers, every name the request had keeps its values, every
\* name it lacked and the defaults have carries the default's value, and no
\* other name appears.
C1_MergeKeepsRequestAddsDefaults ==
    req.client # 0 =>
        \A n \in Names :
            /\ req.before[n] # <<>> => req.headers[n] = req.before[n]
            /\ (req.before[n] = <<>> /\ DefaultsOf(req.client)[n] # <<>>)
                   => req.headers[n] = DefaultsOf(req.client)[n]
            /\ (req.before[n] = <<>> /\ DefaultsOf(req.client)[n] = <<>>)
                   => req.headers[n] = <<>>

\* a merge that kept a two-valued request header, filled one absent name from
\* the defaults, where the defaults also had the name the request set
C1_Witness ==
    /\ req.client # 0
    /\ \E n \in Names : /\ Len(req.before[n]) = 2
                        /\ DefaultsOf(req.client)[n] # <<>>
                        /\ req.headers[n] = req.before[n]
                        /\ req.headers[n][1] # DefaultsOf(req.client)[n][1]
    /\ \E n \in Names : /\ req.before[n] = <<>>
                        /\ req.headers[n] # <<>>

\* C2: no step changes the default headers of a Client that exists: not a
\* merge, not an execute call, not a clone, not a call on a builder, not
\* another build.
C2_DefaultsFrozen ==
    [][\A c \in DOMAIN clients :
          /\ c \in DOMAIN clients'
          /\ arcs'[clients'[c].config].headers = DefaultsOf(c)]_vars

\* a client and its clone, a second client built with other defaults, a merge
\* and a finished execute call with request headers on the first client, and a
\* further builder being configured
C2_Witness ==
    /\ Len(arcs) = 2
    /\ arcs[1].headers # arcs[2].headers
    /\ \E c \in DOMAIN clients : c > 1 /\ clients[c].config = 1
    /\ req.client # 0
    /\ clients[req.client].config = 1
    /\ req.headers # DefaultsOf(req.client)
    /\ calls[1].pc = "done"
    /\ clients[calls[1].client].config = 1
    /\ calls[1].request.headers # EmptyHeaders
    /\ builder.state = "open"
    /\ builder.config.headers # EmptyHeaders
    /\ builder.config.headers # arcs[1].headers

\* C6: build() fails, with a Builder error, exactly when some user_agent call
\* on the builder was given an invalid value; until then and after later
\* valid calls the recorded error stands.
C6_BuildFailsIffInvalidUserAgent ==
    /\ builder.state \in {"open", "failed"} =>
          ((builder.config.error # NoError) <=> said.invalid)
    /\ builder.state \in {"built", "failed"} =>
          ((builder.state = "failed") <=> said.invalid)
    /\ builder.state = "failed" => builder.config.error = BuilderError

\* a build that failed although valid calls followed the invalid one
C6_Witness ==
    /\ builder.state = "failed"
    /\ said.invalid
    /\ ~said.lastInvalid
    /\ said.set[USER_AGENT] # NoValue

\* C7: a user_agent call with an invalid value leaves the builder's headers as
\* they were, and the calls after it still set the headers.
C7_InvalidUserAgentKeepsHeaders ==
    [][/\ (/\ builder.state = "open"
           /\ builder'.state = "open"
           /\ said'.lastInvalid
           /\ said'.set = said.set)
          => builder'.config.headers = builder.config.headers
       /\ (builder'.state = "open" /\ said'.invalid)
          => HeadersAsSaid(builder.config.headers)']_vars

\* an invalid call came after a User-Agent was set, and a later call changed
\* the headers again
C7_Witness ==
    /\ builder.state = "open"
    /\ said.invalid
    /\ ~said.lastInvalid
    /\ builder.config.headers[USER_AGENT] = <<"v2">>
    /\ builder.config.headers[CONTENT_TYPE] = <<"v2">>

\* C8: the Config a build returns holds, for each name, the value the last
\* call that set the name gave it, and nothing for a name no call set.
C8_LastWriterWins ==
    /\ (builder.state = "open" /\ ~said.invalid) => HeadersAsSaid(builder.config.headers)
    /\ builder.state = "built" => HeadersAsSaid(arcs[Len(arcs)].headers)

\* a built Config whose User-Agent is v1: default_headers never gives v1, so a
\* user_agent call gave it last; its Content-Type is the last of two values
C8_Witness ==
    /\ builder.state = "built"
    /\ arcs[Len(arcs)].headers[USER_AGENT] = <<"v1">>
    /\ arcs[Len(arcs)].headers[CONTENT_TYPE] = <<"v2">>
    /\ Len(arcs) = 2
    /\ arcs[1].headers[USER_AGENT] = <<"v2">>

\* C3: when the timer of a call with a timeout elapses before its send has
\* completed, the call returns the Request error that is a timeout, no
\* Response, and its send is cancelled: no call that returned has a send in
\* flight.
C3_TimeoutReturnsTimedOutAndCancels ==
    \A i \in CallIds :
        /\ (calls[i].pc = "done" /\ calls[i].timer = "fired") =>
              /\ calls[i].request.timeout = "Some"
              /\ ~calls[i].result.ok
              /\ calls[i].result.error = [kind |-> "Request", timeout |-> TRUE]
              /\ calls[i].result.response = NoResponse
              /\ calls[i].send = "cancelled"
        /\ calls[i].pc = "done" => calls[i].send # "inflight"

C3_Witness ==
    \E i \in CallIds :
        /\ calls[i].pc = "done"
        /\ calls[i].timer = "fired"
        /\ calls[i].send = "cancelled"
        /\ calls[i].result.error.timeout

\* C4: when the send of a call with a timeout completes before the timer
\* elapses, the call returns the send's outcome: the Response of that send, or
\* a Request error that is no timeout.
C4_SendFirstReturnsItsOutcome ==
    \A i \in CallIds :
        (/\ calls[i].pc = "done"
         /\ calls[i].request.timeout = "Some"
         /\ calls[i].send \in {"ok", "err"}) =>
            /\ ~calls[i].result.error.timeout
            /\ calls[i].timer = "dropped"
            /\ calls[i].send = "ok" =>
                  /\ calls[i].result.ok
                  /\ calls[i].result.response = [http |-> i, url |-> calls[i].request.url]
            /\ calls[i].send = "err" =>
                  /\ ~calls[i].result.ok
                  /\ calls[i].result.error = [kind |-> "Request", timeout |-> FALSE]
                  /\ calls[i].result.response = NoResponse

\* two calls with a timeout whose sends completed first, one with a response
\* and one with a failure
C4_Witness ==
    \E i, j \in CallIds :
        /\ calls[i].pc = "done" /\ calls[j].pc = "done"
        /\ calls[i].request.timeout = "Some" /\ calls[j].request.timeout = "Some"
        /\ calls[i].send = "ok" /\ calls[i].result.ok
        /\ calls[j].send = "err" /\ calls[j].result.error.kind = "Request"

\* C5: the timeout of one call changes nothing of any other call; a send is
\* cancelled only by the timer of its own call, a call that waits still has its
\* send in flight, a timeout error comes from the call's own timer and a
\* Response from the call's own send.
C5_TimeoutCancelsOnlyItsOwnSend ==
    [][\A i \in CallIds :
          /\ (calls[i].timer = "armed" /\ calls'[i].timer = "fired") =>
                \A j \in CallIds \ {i} : calls'[j] = calls[j]
          /\ calls'[i].send = "cancelled" => calls'[i].timer = "fired"
          /\ calls'[i].pc = "awaiting" => calls'[i].send = "inflight"
          /\ calls'[i].result.error.timeout => calls'[i].timer = "fired"
          /\ calls'[i].result.ok =>
                calls'[i].send = "ok" /\ calls'[i].result.response.http = i]_vars

\* the timer of one call fired while the send of a call on another clone was
\* in flight, and that call then completed with its own response
C5_Witness ==
    \E i, j \in CallIds :
        /\ i # j
        /\ calls[i].timer = "fired"
        /\ j \in calls[i].peers
        /\ calls[i].client # calls[j].client
        /\ calls[j].pc = "done"
        /\ calls[j].result.ok
        /\ calls[j].result.response.http = j

\* C9: error_for_status and error_for_status_ref return a Status error with
\* the response's URL and status exactly for a status in 400..599, and the
\* response itself, unchanged, for any other status.
C9_ErrorForStatus ==
    checked.op # "none" =>
        IF resp.status \in 400..599
        THEN /\ ~checked.ok
             /\ checked.error = [kind |-> "Status", url |-> resp.url, status |-> resp.status]
             /\ checked.op = "error_for_status" => resp.state = "moved"
        ELSE /\ checked.ok
             /\ checked.error.kind = "None"
             /\ checked.response.state = "live"
             /\ checked.response.status = resp.status
             /\ checked.response.url = resp.url
             /\ checked.response.body = resp.body

C9_Witness ==
    /\ checked.op = "error_for_status"
    /\ resp.status = 599
    /\ ~checked.ok
    /\ checked.error.status = 599
    /\ checked.error.url = resp.url

\* a body without an error frame, and the items its data frames make
NoErrorFrame(body) == \A k \in DOMAIN body : body[k].kind # "error"

DataItems(body) ==
    LET data == SelectSeq(body, LAMBDA f : f.kind = "data")
    IN [k \in 1..Len(data) |-> OkItem(data[k].bytes)]

\* C10: over a body without an error frame the stream yields one successful
\* item for each data frame, with its bytes, in order, nothing for another
\* frame, and ends only at the end of the body.
C10_StreamYieldsDataFrames ==
    (stream.state = "open" /\ NoErrorFrame(resp.body)) =>
        /\ stream.items \o DataItems(stream.body) = DataItems(resp.body)
        /\ stream.ended => (stream.body = <<>> /\ stream.items = DataItems(resp.body))

C10_Witness ==
    /\ stream.state = "open"
    /\ stream.ended
    /\ resp.body = <<DataFrame("a"), TrailerFrame, DataFrame("b")>>
    /\ stream.items = <<OkItem("a"), OkItem("b")>>

\* C11: in the stream an error item is the last item: nothing, neither data
\* nor another error, is yielded after it, whatever frames the body still
\* holds; and once the stream has ended at the end of the body nothing is left
\* to yield.
C11_ErrorItemIsLast ==
    stream.state = "open" =>
        /\ \A k \in DOMAIN stream.items :
              ~stream.items[k].ok => k = Len(stream.items)
        /\ stream.ended => stream.body = <<>>

\* how many times the body of the Response has been taken to be read: by the
\* collects of the decode operations and by a DataStream
BodyReads == decoded.reads + (IF stream.state = "open" THEN 1 ELSE 0)

\* C12: the body of a Response is taken at most once by bytes, text,
\* text_with_charset, json and bytes_stream together; once the Response is
\* consumed no step takes the body again; and a step of status, headers,
\* content_length or url happens on a live Response and leaves it and its
\* body as they were.
C12_BodyConsumedAtMostOnce ==
    [][/\ BodyReads' <= 1
       /\ resp.state = "moved" => (BodyReads' = BodyReads /\ resp' = resp)
       /\ seen' # seen => (resp.state = "live" /\ resp' = resp /\ BodyReads' = BodyReads)
      ]_vars

C12_Witness ==
    /\ seen.op = "content_length"
    /\ seen.content_length = [some |-> TRUE, n |-> 3]
    /\ decoded.op = "json"
    /\ decoded.ok
    /\ decoded.reads = 1
    /\ resp.state = "moved"

\* C13: text_with_charset decodes with the encoding the charset parameter of
\* the Content-Type header names, when the header is there, parses and has
\* one, whatever the default given; with the encoding the default names
\* otherwise; and with UTF-8 when the name it took is no encoding.
C13_CharsetChoice ==
    (decoded.op = "text_with_charset" /\ decoded.ok) =>
        LET charset ==
                IF rhead.content_type = "text/plain; charset=utf-8" THEN "utf-8"
                ELSE IF rhead.content_type = "text/plain; charset=iso-8859-1"
                     THEN "iso-8859-1"
                ELSE IF rhead.content_type = "text/plain; charset=bogus" THEN "bogus"
                ELSE NoValue
            name == IF charset # NoValue THEN charset ELSE decoded.default
        IN decoded.encoding = IF name \in {"iso-8859-1", "latin1"} THEN "windows-1252"
                              ELSE "UTF-8"

C13_Witness ==
    /\ decoded.op = "text_with_charset"
    /\ decoded.ok
    /\ rhead.content_type = "text/plain; charset=iso-8859-1"
    /\ decoded.default = "utf-8"
    /\ decoded.encoding = "windows-1252"
    /\ decoded.bytes = <<195, 169>>
    /\ decoded.text = <<195, 169>>

\* a text without its leading byte-order mark, if it has one
StripBOM(s) == IF s # <<>> /\ Head(s) = BOM THEN Tail(s) ELSE s

\* bytes that are the UTF-8 encoding of some text
WellFormed(b) == utf8_encode(from_utf8_lossy(b)) = b

\* C14: text() on a response without an explicit charset, in either build,
\* returns the text s whose UTF-8 encoding the body holds, without the leading
\* byte-order mark of s; and over bytes that are no UTF-8 it returns a text
\* with the replacement character in it, not an error.
C14_TextRoundTrip ==
    (/\ decoded.op = "text"
     /\ content_type_of(rhead).charset = NoValue
     /\ NoErrorFrame(resp.body)) =>
        LET full == collect(resp.body).bytes
        IN /\ decoded.ok
           /\ \A s \in TextStrings : full = utf8_encode(s) => decoded.text = StripBOM(s)
           /\ ~WellFormed(full) =>
                 \E k \in DOMAIN decoded.text : decoded.text[k] = REPLACEMENT_CHARACTER

\* C15: the request the transport is handed carries the merged headers: under
\* every name the values of the request where it has any, the defaults of the
\* client where it has none; and no send runs without such a request handed
\* over, so the merge is done before the send.
C15_MergedHeadersOnTheWire ==
    \A i \in CallIds :
        /\ \A k \in DOMAIN calls[i].wire : \A n \in Names :
              calls[i].wire[k].headers[n] =
                 IF calls[i].request.headers[n] # <<>>
                 THEN calls[i].request.headers[n]
                 ELSE DefaultsOf(calls[i].client)[n]
        /\ calls[i].send # "none" => calls[i].wire # <<>>

C15_Witness ==
    \E i \in CallIds :
        /\ calls[i].send = "inflight"
        /\ calls[i].request.headers[USER_AGENT] = <<"v2">>
        /\ calls[i].request.headers[CONTENT_TYPE] = <<>>
        /\ calls[i].wire[1].headers[USER_AGENT] = <<"v2">>
        /\ calls[i].wire[1].headers[CONTENT_TYPE] = <<"v2">>

\* C16: a call hands the transport at most one request: once it has handed
\* one over, no step of any call, whether its send succeeds, fails or is
\* timed out, hands over another, and a call that has returned does nothing
\* more.
C16_SendAtMostOnce ==
    [][\A i \in CallIds :
          /\ Len(calls'[i].wire) <= 1
          /\ calls[i].wire # <<>> => calls'[i].wire = calls[i].wire
          /\ calls[i].pc = "done" => calls'[i] = calls[i]]_vars

\* three outcomes of a single send: a failure and a timeout side by side, and
\* no second request on the wire of either call
C16_Witness ==
    \E i, j \in CallIds :
        /\ calls[i].pc = "done" /\ calls[i].send = "err" /\ Len(calls[i].wire) = 1
        /\ calls[j].pc = "done" /\ calls[j].timer = "fired" /\ Len(calls[j].wire) = 1

\* C17: a call whose request has no timeout has no timer: it never returns a
\* timeout, it has returned only if its send completed, and while its send is
\* in flight it has not returned.
C17_NoTimeoutAwaitsTheSend ==
    \A i \in CallIds :
        (/\ calls[i].pc # "idle"
         /\ calls[i].request.timeout = "None"
         /\ calls[i].request.convertible) =>
            /\ calls[i].timer = "none"
            /\ ~calls[i].result.error.timeout
            /\ calls[i].pc = "done" => calls[i].send \in {"ok", "err"}
            /\ calls[i].send = "inflight" =>
                  (calls[i].pc = "awaiting" /\ calls[i].result = NoResult)

\* a call without a timeout was still waiting when another call timed out,
\* and returned later, with the outcome of its send
C17_Witness ==
    \E i, j \in CallIds :
        /\ calls[i].request.timeout = "None"
        /\ calls[j].timer = "fired"
        /\ i \in calls[j].peers
        /\ calls[i].pc = "done"
        /\ calls[i].send = "err"

\* C18: a call whose send failed has returned a Request error that is no
\* timeout, and no Response, whether or not its request has a timeout.
C18_TransportFailureIsRequestError ==
    \A i \in CallIds :
        calls[i].send = "err" =>
            /\ calls[i].pc = "done"
            /\ ~calls[i].result.ok
            /\ calls[i].result.error = [kind |-> "Request", timeout |-> FALSE]
            /\ calls[i].result.response = NoResponse

C18_Witness ==
    \E i, j \in CallIds :
        /\ calls[i].send = "err" /\ calls[i].request.timeout = "Some"
        /\ calls[j].send = "err" /\ calls[j].request.timeout = "None"
        /\ ~calls[i].result.ok /\ ~calls[j].result.ok

\* C19: a call whose request does not convert has returned a Request error:
\* nothing was handed to the transport, no send was started and no timer.
C19_ConversionFailure ==
    \A i \in CallIds :
        (calls[i].pc # "idle" /\ ~calls[i].request.convertible) =>
            /\ calls[i].pc = "done"
            /\ ~calls[i].result.ok
            /\ calls[i].result.error.kind = "Request"
            /\ calls[i].result.response = NoResponse
            /\ calls[i].wire = <<>>
            /\ calls[i].send = "none"
            /\ calls[i].timer = "none"

C19_Witness ==
    \E i, j \in CallIds :
        /\ ~calls[i].request.convertible
        /\ calls[i].request.timeout = "Some"
        /\ calls[i].pc = "done"
        /\ calls[i].result.error.kind = "Request"
        /\ calls[j].send = "inflight"

\* C20: the Response a call returns holds the URL of the request given to that
\* call and the response of that call's own send, also when calls with other
\* URLs were in flight on the same transport handle.
C20_ResponseIsTheCallsOwn ==
    \A i \in CallIds :
        calls[i].result.ok =>
            /\ calls[i].result.response = Response_new(i, calls[i].request.url)
            /\ \A j \in CallIds \ {i} :
                  calls[j].result.ok =>
                     calls[j].result.response.http # calls[i].result.response.http

\* two calls with different URLs over the two clones of one Client, the send
\* of one completing while the other's was in flight
C20_Witness ==
    \E i, j \in CallIds :
        /\ i # j
        /\ calls[i].result.ok /\ calls[j].result.ok
        /\ clients[calls[i].client].wstd_client = clients[calls[j].client].wstd_client
        /\ j \in calls[i].peers
        /\ calls[i].request.url # calls[j].request.url
        /\ calls[i].result.response.url = calls[i].request.url
        /\ calls[j].result.response.url = calls[j].request.url

\* C21: the default headers of a builder, and of every built Client, hold at
\* most one value under a name: exactly one, the last one given, under a name
\* some call has set, also where default_headers was given several values for
\* it; and a merge puts at most one value under a name the request left out.
C21_OneValuePerDefaultName ==
    /\ builder.state = "open" =>
          \A n \in Names :
             /\ Len(builder.config.headers[n]) <= 1
             /\ Len(builder.config.headers[n]) = 1 <=> said.set[n] # NoValue
             /\ said.set[n] # NoValue => builder.config.headers[n] = <<said.set[n]>>
    /\ \A a \in DOMAIN arcs : \A n \in Names : Len(arcs[a].headers[n]) <= 1
    /\ req.client # 0 =>
          \A n \in Names : req.before[n] = <<>> => Len(req.headers[n]) <= 1

\* a Client built after default_headers was given two values for Content-Type
\* holds the last of them, and a merge gave it to a request that had none
C21_Witness ==
    /\ req.client # 0
    /\ arcs[clients[req.client].config].headers[CONTENT_TYPE] = <<"v2">>
    /\ req.before[CONTENT_TYPE] = <<>>
    /\ req.headers[CONTENT_TYPE] = <<"v2">>
    /\ builder.state = "open"
    /\ said.set[CONTENT_TYPE] = "v2"
    /\ builder.config.headers[CONTENT_TYPE] = <<"v2">>

====
